---------------------------- MODULE Spec2Model ----------------------------
(***************************************************************************)
(* A model of src/main.py (the tutoring service): the Prerequisites walk   *)
(* (get_all_prerequisites / get_all_prerequisites_recursive), the choice   *)
(* of the next skill (find_next_skill), and the per-learner session state  *)
(* machine of chat_handler together with master_skills_bulk and set_goal.  *)
(***************************************************************************)
EXTENDS Naturals, Integers, Sequences, FiniteSets, TLC

\* ------------------------------------------------------------------ bounds
MaxSkill == 3
MaxEdges == 3

SkillIds == 1..MaxSkill
EdgeSets == {E \in SUBSET (SkillIds \X SkillIds) : Cardinality(E) <= MaxEdges}

VARIABLES
  prereqs,    \* the Prerequisites table: <<skill_id, prerequisite_id>> rows
  skillRows,  \* the skill_id values that have a row in the Skills table
  subjectOf,  \* Skills.subject of every row, as its rank among the subjects
  users,      \* the usernames with a row in the Users table
  mastery,    \* the committed User_Skills rows: the skill_ids of every username
  session,    \* user_session_state: every username's entry
  turn,       \* the request handled last: what came in and what went out
  log,        \* per username, a record of its requests (teaching events, or one entry each)
  wPc,        \* the walk's position: "idle", "running" or "done"
  wStart,     \* the skill of the top-level get_all_prerequisites call
  wCall,      \* the skill of a call just made and not yet entered (0: none)
  wStack,     \* the frames of the calls in progress, the innermost last
  wVisited,   \* the visited set threaded through the calls
  wResult,    \* what the top-level call returned
  wSeen,      \* what earlier completed walks from wStart returned
  wCalls,     \* how many calls this walk has made
  pPc,        \* "idle", or "done" once find_next_skill has been called
  pMastered,  \* the mastered_skills argument of that call
  pGoal,      \* its goal_skill_id argument
  pResult,    \* what it returned (0 for None)
  pSeen,      \* what earlier calls with the same arguments returned
  suggested   \* the skills list /available_skills returned last

walkVars == <<wPc, wStart, wCall, wStack, wVisited, wResult, wSeen, wCalls>>
planVars == <<pPc, pMastered, pGoal, pResult, pSeen>>
dataVars == <<prereqs, skillRows, subjectOf>>
sessVars == <<users, mastery, session, turn>>
vars == <<dataVars, walkVars, planVars, sessVars, log, suggested>>

\* ------------------------------------------------- user_session_state
Usernames == {"alice", "bob"}

\* Python's None, where a skill identifier is expected.
None == 0

\* username not in user_session_state
NoSession ==
  [kind |-> "none", skill |-> None, phase |-> "none", lastq |-> "none", goal |-> None]

\* The entry stored while the prerequisite checklist is shown.
ChecklistSession(goal) ==
  [kind |-> "checklist", skill |-> None, phase |-> "none", lastq |-> "none", goal |-> goal]

\* An entry that starts with a question left over.
TeachingSessionStale(skill, goal) ==
  [kind |-> "teaching", skill |-> skill, phase |-> "Crawl", lastq |-> "run_question",
   goal |-> goal]

\* The entry stored when teaching of a skill starts.
TeachingSession(skill, goal) ==
  [kind |-> "teaching", skill |-> skill, phase |-> "Crawl", lastq |-> "none", goal |-> goal]

\* No request handled yet.
NoTurn ==
  [op |-> "none", user |-> "", before |-> NoSession, msg |-> "none", asked |-> "none",
   reply |-> "none", raised |-> FALSE, committed |-> {}, taught |-> None, ok |-> TRUE,
   goal |-> None, calls |-> 0]

\* user_session_state = {}, an empty Users table and no User_Skills rows.
SessIdle ==
  /\ users = {}
  /\ mastery = [u \in Usernames |-> {}]
  /\ session = [u \in Usernames |-> NoSession]
  /\ turn = NoTurn
  /\ log = [u \in Usernames |-> << >>]

\* ------------------------------------------------------- database reads
\* The orders in which a cursor may hand back the rows S of a query that
\* carries no ORDER BY, and in which Python may iterate a set S.
RECURSIVE Orders(_)
Orders(S) ==
  IF S = {} THEN {<< >>}
  ELSE UNION {{<<x>> \o q : q \in Orders(S \ {x})} : x \in S}

\* SELECT prerequisite_id FROM Prerequisites WHERE skill_id = s
DirectPrereqs(s) == {e[2] : e \in {d \in prereqs : d[1] = s}}

\* min(S) and max(S) of a non-empty set of identifiers.
Min(S) == CHOOSE x \in S : \A y \in S : x <= y
Max(S) == CHOOSE x \in S : \A y \in S : x >= y

\* The identifiers of S as a sequence, ascending or descending.
RECURSIVE Sorted(_, _)
Sorted(S, ord) ==
  IF S = {} THEN << >>
  ELSE LET x == IF ord = "asc" THEN Min(S) ELSE Max(S)
       IN <<x>> \o Sorted(S \ {x}, ord)

\* The row orders the whole-call evaluation is tried under: by ascending
\* and by descending prerequisite_id. (The step-by-step walk below takes
\* every order, separately for every query.)
RowOrders == {"asc", "desc"}

\* The row orders that differ on the current table: a query that returns
\* at most one row has one order.
RowOrdersNow ==
  IF \E e \in prereqs : Cardinality(DirectPrereqs(e[1])) > 1 THEN RowOrders ELSE {"asc"}

\* cursor.fetchall() of that query, the rows in order ord.
FetchPrereqRows(s, ord) == Sorted(DirectPrereqs(s), ord)

\* ------------------------------------------- get_all_prerequisites, whole
\* The call get_all_prerequisites(cursor, s, visited), evaluated in one go:
\* the set it returns and the visited set it leaves behind.
RECURSIVE GetAllPrerequisitesFrom(_, _, _), WalkRows(_, _, _, _)

\* The guard dropped: a visited skill is walked again.
AlreadyVisitedNever(s, visited) == FALSE

\* if skill_id in visited
AlreadyVisited(s, visited) == s \in visited

\* The set started with the skill itself in it.
NewPrerequisitesWithSelf(s) == {s}

\* prerequisites = set()
NewPrerequisites(s) == {}

GetAllPrerequisitesFrom(s, visited, ord) ==
  IF AlreadyVisited(s, visited)
    THEN [res |-> {}, visited |-> visited]
    ELSE WalkRows(FetchPrereqRows(s, ord), NewPrerequisites(s), visited \cup {s}, ord)

\* for row in cursor.fetchall(): add the row, update with the recursive call
WalkRows(rows, acc, visited, ord) ==
  IF rows = << >>
    THEN [res |-> acc, visited |-> visited]
    ELSE LET sub == GetAllPrerequisitesFrom(Head(rows), visited, ord)
         IN WalkRows(Tail(rows), acc \cup {Head(rows)} \cup sub.res, sub.visited, ord)

\* get_all_prerequisites(cursor, s): visited is None, so a fresh set.
GetAllPrerequisites(s, ord) == GetAllPrerequisitesFrom(s, {}, ord).res

\* get_all_prerequisites_recursive(cursor, s): the same body under another name.
GetAllPrerequisitesRecursive(s, ord) == GetAllPrerequisitesFrom(s, {}, ord).res

\* -------------------------------------- get_all_prerequisites, step by step
\* A frame of a call in progress: its skill, the rows still to iterate and
\* its prerequisites set so far.
Frame(s, rows) == [skill |-> s, rows |-> rows, acc |-> NewPrerequisites(s)]

\* No call is deeper than the skills there are, unless the visited guard fails.
DepthCap == Cardinality(SkillIds) + 2

WalkIdle ==
  /\ wPc = "idle" /\ wStart = 0 /\ wCall = 0 /\ wStack = << >>
  /\ wVisited = {} /\ wResult = {} /\ wSeen = {} /\ wCalls = 0

\* A top-level call get_all_prerequisites(cursor, s).
WalkBegin(s) ==
  /\ wPc \in {"idle", "done"}
  /\ wPc' = "running"
  /\ wStart' = s
  /\ wCall' = s
  /\ wStack' = << >>
  /\ wVisited' = {}
  /\ wResult' = {}
  /\ wSeen' = IF wPc = "done" /\ wStart = s THEN wSeen \cup {wResult} ELSE {}
  /\ wCalls' = 1
  /\ UNCHANGED <<dataVars, sessVars, log, planVars, suggested>>

\* The call just made starts: it returns set() at once for a visited skill,
\* and otherwise marks the skill visited and fetches its rows.
WalkEnter ==
  /\ wPc = "running" /\ wCall # 0
  /\ IF AlreadyVisited(wCall, wVisited)
       THEN /\ wCall' = 0
            /\ UNCHANGED <<wStack, wVisited>>
       ELSE /\ Len(wStack) < DepthCap
            /\ \E q \in Orders(DirectPrereqs(wCall)) :
                 wStack' = Append(wStack, Frame(wCall, q))
            /\ wVisited' = wVisited \cup {wCall}
            /\ wCall' = 0
  /\ UNCHANGED <<dataVars, sessVars, log, planVars, suggested, wPc, wStart, wResult, wSeen, wCalls>>

\* One turn of the for loop: add the row's prerequisite_id and call on it.
WalkRow ==
  /\ wPc = "running" /\ wCall = 0 /\ wStack # << >>
  /\ LET top == wStack[Len(wStack)] IN
       /\ Len(top.rows) > 0
       /\ wStack' = [wStack EXCEPT ![Len(wStack)] =
                       [top EXCEPT !.rows = [i \in 1..(Len(top.rows) - 1) |-> top.rows[i + 1]],
                                   !.acc = top.acc \cup {top.rows[1]}]]
       /\ wCall' = top.rows[1]
  /\ wCalls' = wCalls + 1
  /\ UNCHANGED <<dataVars, sessVars, log, planVars, suggested, wPc, wStart, wVisited, wResult, wSeen>>

\* return prerequisites: the caller updates its own set with it, and the
\* top-level call hands it to whoever asked.
WalkReturn ==
  /\ wPc = "running" /\ wCall = 0 /\ wStack # << >>
  /\ LET n == Len(wStack)
         top == wStack[n] IN
       /\ Len(top.rows) = 0
       /\ IF n = 1
            THEN /\ wStack' = << >>
                 /\ wResult' = top.acc
                 /\ wPc' = "done"
            ELSE /\ wStack' = [i \in 1..(n - 1) |->
                                 IF i = n - 1
                                   THEN [wStack[i] EXCEPT !.acc = wStack[i].acc \cup top.acc]
                                   ELSE wStack[i]]
                 /\ UNCHANGED <<wResult, wPc>>
  /\ UNCHANGED <<dataVars, sessVars, log, planVars, suggested, wStart, wCall, wVisited, wSeen, wCalls>>

WalkStep == WalkEnter \/ WalkRow \/ WalkReturn

PlanIdle ==
  /\ pPc = "idle" /\ pMastered = {} /\ pGoal = 0 /\ pResult = 0 /\ pSeen = {}

InitWalk == /\ prereqs \in EdgeSets
            /\ skillRows = SkillIds
            /\ subjectOf = [s \in SkillIds |-> 1]
            /\ WalkIdle
            /\ PlanIdle
            /\ suggested = << >>
            /\ SessIdle

NextWalk == (\E s \in SkillIds : WalkBegin(s)) \/ WalkEnter \/ WalkRow \/ WalkReturn

SpecWalk == InitWalk /\ [][NextWalk]_vars /\ WF_vars(WalkStep)

\* -------------------------------------------------------- find_next_skill
\* No prerequisite counted as missing.
UnmasteredPrereqsNone(mastered, goal, ord) == {}

\* unmastered_prereqs = all_prereqs - mastered_skills
UnmasteredPrereqs(mastered, goal, ord) == GetAllPrerequisites(goal, ord) \ mastered

\* The test skipped: whichever member the loop meets first is returned.
IsFoundationalAlways(p, mastered, ord) == TRUE

\* prereq_prereqs.issubset(mastered_skills)
IsFoundational(p, mastered, ord) == GetAllPrerequisites(p, ord) \subseteq mastered

\* for prereq_id in unmastered_prereqs: the loop meets the members in the
\* order iter (Python fixes no iteration order for a set) and returns the
\* first one that passes the test; min() is the fallback after the loop.
RECURSIVE FirstFoundational(_, _, _, _)
FirstFoundational(iter, i, mastered, ord) ==
  IF i > Len(iter) THEN Min({iter[k] : k \in 1..Len(iter)})
  ELSE IF IsFoundational(iter[i], mastered, ord) THEN iter[i]
  ELSE FirstFoundational(iter, i + 1, mastered, ord)

\* The goal itself handed back whenever it is not mastered.
FindNextSkillGoalFirst(mastered, goal, ord, iter) == IF goal \in mastered THEN None ELSE goal

\* find_next_skill(cursor, mastered_skills, goal_skill_id), the rows coming
\* in order ord and the unmastered set iterated in order iter.
FindNextSkill(mastered, goal, ord, iter) ==
  IF goal \in mastered THEN None
  ELSE IF UnmasteredPrereqs(mastered, goal, ord) = {} THEN goal
  ELSE FirstFoundational(iter, 1, mastered, ord)

\* A call of find_next_skill on a mastery set and a goal.
PlanCall(mastered, goal) ==
  /\ pPc = "idle" \/ (pMastered = mastered /\ pGoal = goal)
  /\ \E ord \in RowOrders :
       \E iter \in Orders(UnmasteredPrereqs(mastered, goal, ord)) :
         pResult' = FindNextSkill(mastered, goal, ord, iter)
  /\ pPc' = "done"
  /\ pMastered' = mastered
  /\ pGoal' = goal
  /\ pSeen' = IF pPc = "done" /\ pMastered = mastered /\ pGoal = goal
                THEN pSeen \cup {pResult} ELSE {}
  /\ UNCHANGED <<dataVars, sessVars, log, walkVars, suggested>>

InitPlan == InitWalk

NextPlan == \E mastered \in SUBSET SkillIds : \E goal \in SkillIds : PlanCall(mastered, goal)

SpecPlan == InitPlan /\ [][NextPlan]_vars

\* ---------------------------------------------------- get_skill_suggestions
\* The prerequisites not looked at: every skill not mastered.
ReadyToLearnUnchecked(mastered, ord) == skillRows \ mastered

\* The skills that are not mastered and have every prerequisite mastered.
ReadyToLearn(mastered, ord) ==
  {k \in skillRows : k \notin mastered /\ GetAllPrerequisites(k, ord) \subseteq mastered}

\* suggestions.sort(key=lambda x: (x['subject'], x['skill_id']))
SortsBefore(a, b) ==
  \/ subjectOf[a] < subjectOf[b]
  \/ subjectOf[a] = subjectOf[b] /\ a <= b

RECURSIVE SortBySubject(_)
SortBySubject(S) ==
  IF S = {} THEN << >>
  ELSE LET x == CHOOSE a \in S : \A b \in S : SortsBefore(a, b)
       IN <<x>> \o SortBySubject(S \ {x})

\* return suggestions[:10]
SuggestionLimit == 10

GetSkillSuggestions(mastered, ord) ==
  LET all == SortBySubject(ReadyToLearn(mastered, ord))
  IN IF Len(all) <= SuggestionLimit THEN all ELSE SubSeq(all, 1, SuggestionLimit)

\* ------------------------------------------------------ chat_handler: intake
\* What a message is to the handler: one of the resume phrases, a question
\* about what to learn, a message analyze_user_intent finds skills for, or
\* anything else.
MessageKinds == {"resume", "suggest", "topic", "other"}

\* The longest list analyze_user_intent returns.
MaxPotential == 2

\* The lists of Skills rows analyze_user_intent may return for a message.
PotentialSkills(msg) ==
  IF msg = "topic"
    THEN UNION {Orders(S) : S \in {T \in SUBSET skillRows :
                                     Cardinality(T) >= 1 /\ Cardinality(T) <= MaxPotential}}
    ELSE {<< >>}

\* if user_message.lower() in [...]: del user_session_state[username]
SessionAfterResume(u, msg) == IF msg = "resume" THEN NoSession ELSE session[u]

\* for skill in potential_skills: the first one whose prerequisites are all
\* mastered, else potential_skills[0].
RECURSIVE FirstReadySkill(_, _, _, _)
FirstReadySkill(ps, i, mastered, ord) ==
  IF i > Len(ps) THEN ps[1]
  ELSE IF GetAllPrerequisites(ps[i], ord) \subseteq mastered THEN ps[i]
  ELSE FirstReadySkill(ps, i + 1, mastered, ord)

\* The default learning path: the goal for the number of skills mastered
\* (None: the whole curriculum is mastered and the handler congratulates).
DefaultGoal(mastered, ord) ==
  LET n == Cardinality(mastered) IN
    IF n < 7 THEN 7
    ELSE IF n < 53 THEN 53
    ELSE IF n < 81 THEN 81
    ELSE IF n < 108 THEN 108
    ELSE IF n < 126 THEN 126
    ELSE IF n < 157 THEN 157
    ELSE IF GetSkillSuggestions(mastered, ord) # << >>
      THEN GetSkillSuggestions(mastered, ord)[1]
    ELSE None

IntakeGoal(mastered, ps, ord) ==
  IF ps # << >> THEN FirstReadySkill(ps, 1, mastered, ord) ELSE DefaultGoal(mastered, ord)

\* if len(unmastered_prereqs) > 3
ChecklistThreshold == 3

\* The goals find_next_skill may be called with in this turn, if it is
\* called: a goal taken in from the message, or the stored goal in the
\* Summary phase and on the return from the checklist.
GoalsOfTurn(s0, mastered, msg, ord) ==
  IF s0.kind = "none"
    THEN (IF msg = "suggest" THEN {None}
          ELSE {IntakeGoal(mastered, ps, ord) : ps \in PotentialSkills(msg)})
  ELSE IF s0.kind = "checklist" THEN (IF msg = "resume" THEN {s0.goal} ELSE {None})
  ELSE IF s0.phase = "Summary" THEN {s0.goal}
  ELSE {None}

\* What find_next_skill may return for a goal, over the iteration orders
\* of its unmastered set.
NextSkillChoices(mastered, goal, ord) ==
  {FindNextSkill(mastered, goal, ord, iter) :
     iter \in Orders(UnmasteredPrereqs(mastered, goal, ord))}

\* ------------------------------------------------- chat_handler: the phases
\* What generate_content may do: raise (a timeout, a service error), hand
\* back plain text, or, asked to evaluate, hand back text without a JSON
\* object, text whose braces do not hold valid JSON, or a judgment.
\* (Not covered: a database statement of the turn failing, and a judgment
\* whose feedback field is not a string.)
OracleOutcomes(phase) ==
  IF phase \in {"Walk_Evaluate", "Run_Evaluate"}
    THEN {"fail", "no_json", "bad_json", "correct", "incorrect"}
    ELSE {"fail", "text"}

\* generative_model.generate_content is called at one place (line 618),
\* which a turn passes once or not at all: the calls of a turn that
\* consumed the outcome asked.
OracleCalls(asked) == IF asked = "none" THEN 0 ELSE 1

\* What a turn leaves behind: the learner's entry, the committed mastery
\* set, the reply (none when the handler raised), the oracle outcome it
\* consumed (none when it made no call), the skills it committed and the
\* skill its prompt was about in a Crawl, Walk or Run phase (None if none).
Outcome(sess, mastered, reply, raised, asked, committed) ==
  [session |-> sess, mastered |-> mastered, reply |-> reply, raised |-> raised,
   asked |-> asked, committed |-> committed, taught |-> None,
   calls |-> OracleCalls(asked)]

\* The practice steps left out: from the explanation straight to the test.
PhaseBeforeCallSkipping(phase) ==
  CASE phase = "Crawl" -> "Run_Evaluate"
    [] phase = "Walk_Ask" -> "Walk_Evaluate"
    [] phase = "Walk_Evaluate" -> "Run_Ask"
    [] phase = "Run_Ask" -> "Run_Evaluate"
    [] OTHER -> phase

\* The phase written before the oracle is called (lines 578-596).
PhaseBeforeCall(phase) ==
  CASE phase = "Crawl" -> "Walk_Ask"
    [] phase = "Walk_Ask" -> "Walk_Evaluate"
    [] phase = "Walk_Evaluate" -> "Run_Ask"
    [] phase = "Run_Ask" -> "Run_Evaluate"
    [] OTHER -> phase

\* The learner sent back to the explanation.
PhaseAfterFailedRunCrawl == "Crawl"

\* The phase written after an incorrect Run_Evaluate judgment.
PhaseAfterFailedRun == "Walk_Ask"

\* The entry kept as the turn left it.
SessionKeptAfterError(s1) == s1

\* except Exception: if username in user_session_state: del ...
SessionAfterError(s1) == NoSession

\* A duplicate row makes the INSERT fail.
InsertRejectsDuplicate(old, new) == old \cap new = {}

\* INSERT INTO User_Skills ... ON DUPLICATE KEY UPDATE skill_id=skill_id:
\* does the statement go through for the rows new, the table holding old?
InsertAccepted(old, new) == TRUE

\* Everything marked replaces what the table held.
CommittedMasteryReplaced(old, new, good) == IF good THEN new ELSE old

\* A rollback that leaves the inserted rows in the table.
CommittedMasteryNoRollback(old, new, good) == old \cup new

\* The learner's User_Skills rows after the rows new were inserted and the
\* transaction was committed (good) or rolled back.
CommittedMastery(old, new, good) == IF good THEN old \cup new ELSE old

\* The current skill together with the goal.
SkillsCommittedWithGoal(s) == {s.skill, s.goal}

\* skill_id = current_session['current_skill_id']: the rows a correct
\* Run_Evaluate judgment inserts.
SkillsCommitted(s) == {s.skill}

\* The *_Evaluate branch after the call returned text (lines 622-642).
EvaluateTurn(s, s1, mastered, oracle) ==
  CASE oracle = "no_json" ->
         Outcome(s1, mastered, "malformed", FALSE, oracle, {})
    [] oracle = "bad_json" ->
         Outcome(SessionAfterError(s1), mastered, "parse_error_text", FALSE, oracle, {})
    [] oracle = "correct" ->
         IF s.phase = "Run_Evaluate"
           THEN (IF InsertAccepted(mastered, SkillsCommitted(s))
                   THEN Outcome([s1 EXCEPT !.phase = "Summary"],
                                CommittedMastery(mastered, SkillsCommitted(s), TRUE),
                                "feedback_mastered", FALSE, oracle, SkillsCommitted(s))
                   ELSE Outcome(SessionAfterError(s1), mastered, "api_error_text", FALSE,
                                oracle, {}))
           ELSE Outcome(s1, mastered, "feedback", FALSE, oracle, {})
    [] OTHER ->
         Outcome(IF s.phase = "Run_Evaluate"
                   THEN [s1 EXCEPT !.phase = PhaseAfterFailedRun] ELSE s1,
                 mastered, "feedback_retry", FALSE, oracle, {})

\* The question not kept.
StoreQuestionSkipped(s1, q) == s1

\* if phase.endswith("_Ask"): user_session_state[username]['last_question']
\* = response_text. A question is kept as what it asks for, guided practice
\* or the test: between two questions of one kind a session always asks
\* one of the other.
StoreQuestion(s1, q) == [s1 EXCEPT !.lastq = q]

\* The turn of a learner whose entry s is a teaching session (lines 570-650);
\* next is what find_next_skill returned in the Summary phase.
TeachTurn(s, mastered, oracle, next) ==
  LET s1 == IF s.phase = "Summary" THEN NoSession
            ELSE [s EXCEPT !.phase = PhaseBeforeCall(s.phase)]
      r == IF s.phase = "Summary" /\ next # None /\ next \notin skillRows
             THEN Outcome(s, mastered, "none", TRUE, "none", {})
           ELSE IF oracle = "fail"
             THEN Outcome(SessionAfterError(s1), mastered, "api_error_text", FALSE, oracle, {})
           ELSE IF s.phase \in {"Walk_Evaluate", "Run_Evaluate"}
             THEN EvaluateTurn(s, s1, mastered, oracle)
           ELSE IF s.phase = "Walk_Ask"
             THEN Outcome(StoreQuestion(s1, "walk_question"), mastered, "text", FALSE,
                          oracle, {})
           ELSE IF s.phase = "Run_Ask"
             THEN Outcome(StoreQuestion(s1, "run_question"), mastered, "text", FALSE,
                          oracle, {})
           ELSE Outcome(s1, mastered, "text", FALSE, oracle, {})
  IN IF s.phase = "Summary" THEN r ELSE [r EXCEPT !.taught = s.skill]

\* The turn of a learner with no entry (lines 436-542), up to the session it
\* creates; goal is the goal taken in from the message and next is what
\* find_next_skill returned for it.
IntakeTurn(mastered, msg, goal, ord, next, oracle) ==
    IF msg = "suggest"
      THEN Outcome(NoSession, mastered,
                   IF GetSkillSuggestions(mastered, ord) # << >>
                     THEN "suggestions" ELSE "all_mastered",
                   FALSE, "none", {})
    ELSE IF goal = None
      THEN Outcome(NoSession, mastered, "curriculum_complete", FALSE, "none", {})
    ELSE IF Cardinality(GetAllPrerequisitesRecursive(goal, ord) \ mastered) > ChecklistThreshold
      THEN (IF goal \in skillRows
              THEN Outcome(ChecklistSession(goal), mastered, "checklist", FALSE, "none", {})
              ELSE Outcome(NoSession, mastered, "none", TRUE, "none", {}))
    ELSE IF next = None
      THEN Outcome(NoSession, mastered, "path_complete", FALSE, "none", {})
    ELSE IF next \notin skillRows
      THEN Outcome(NoSession, mastered, "none", TRUE, "none", {})
    ELSE TeachTurn(TeachingSession(next, goal), mastered, oracle, None)

\* The turn of a learner whose entry is the checklist one (lines 544-573).
\* On a resume phrase the path is worked out again for the stored goal;
\* any other message reads skill_name from an entry that has none.
ChecklistTurn(s0, mastered, msg, next, oracle) ==
  IF msg = "resume"
    THEN (IF next = None
            THEN Outcome(NoSession, mastered, "prerequisites_complete", FALSE, "none", {})
          ELSE IF next \notin skillRows
            THEN Outcome(NoSession, mastered, "none", TRUE, "none", {})
          ELSE TeachTurn(TeachingSession(next, s0.goal), mastered, oracle, None))
    ELSE Outcome(s0, mastered, "none", TRUE, "none", {})

\* chat_handler for username u.
ChatHandler(u, msg, goal, ord, next, oracle) ==
  LET s0 == SessionAfterResume(u, msg) IN
    IF s0.kind = "none" THEN IntakeTurn(mastery[u], msg, goal, ord, next, oracle)
    ELSE IF s0.kind = "checklist" THEN ChecklistTurn(s0, mastery[u], msg, next, oracle)
    ELSE TeachTurn(s0, mastery[u], oracle, next)

\* The phase the oracle is called in, if the turn gets that far.
PhaseAtCall(s0) == IF s0.kind = "teaching" THEN s0.phase ELSE "Crawl"

\* The messages that differ for a learner whose entry is s: with no entry
\* the handler looks for the resume phrases, the what-to-learn phrases and
\* the subjects; with an entry it looks for the resume phrases alone.
MessagesFor(s) == IF s.kind = "none" THEN MessageKinds ELSE {"resume", "other"}

\* The calls a turn makes besides the oracle's: does it read Prerequisites
\* (and so depend on the row order), and does it reach the oracle?
ReadsPrerequisites(s0, msg) ==
  s0.kind = "none" \/ (s0.kind = "teaching" /\ s0.phase = "Summary")

\* One entry shared by all usernames.
StoreSessionForAll(sessions, u, s) == [v \in Usernames |-> s]

\* user_session_state[username] = ..., del user_session_state[username]:
\* the dictionary with the entry of u replaced by s.
StoreSession(sessions, u, s) == [sessions EXCEPT ![u] = s]

\* One request to /chat.
ChatTurn(u) ==
  \E msg \in MessagesFor(session[u]) :
    LET s0 == SessionAfterResume(u, msg) IN
      \E ord \in (IF ReadsPrerequisites(s0, msg) THEN RowOrdersNow ELSE {"asc"}) :
        \E goal \in GoalsOfTurn(s0, mastery[u], msg, ord) :
          \E next \in NextSkillChoices(mastery[u], goal, ord) :
            \E oracle \in OracleOutcomes(PhaseAtCall(s0)) :
              LET r == ChatHandler(u, msg, goal, ord, next, oracle) IN
                /\ users' = users \cup {u}
                /\ session' = StoreSession(session, u, r.session)
                /\ mastery' = [mastery EXCEPT ![u] = r.mastered]
                /\ turn' = [op |-> "chat", user |-> u, before |-> session[u], msg |-> msg,
                            asked |-> r.asked, reply |-> r.reply, raised |-> r.raised,
                            committed |-> r.committed, taught |-> r.taught,
                            ok |-> ~r.raised, goal |-> None, calls |-> r.calls]
                /\ UNCHANGED <<dataVars, walkVars, planVars, suggested>>

\* The teaching record of a learner: for each skill, the first turn whose
\* prompt was about it (with whether it was in the mastery set read at the
\* start of that turn) and the turn that committed it, in order.
TeachEvent(s, known) == [kind |-> "teach", skill |-> s, known |-> known]
MasterEvent(s) == [kind |-> "master", skill |-> s, known |-> TRUE]

AppendNew(seq, e) == IF \E i \in 1..Len(seq) : seq[i] = e THEN seq ELSE Append(seq, e)

\* One request to /chat, with the teaching record kept.
ChatTurnLogged(u) ==
  /\ ChatTurn(u)
  /\ log' = [log EXCEPT ![u] =
               LET l1 == IF turn'.taught # None
                           THEN AppendNew(@, TeachEvent(turn'.taught, turn'.taught \in mastery[u]))
                           ELSE @
               IN IF turn'.committed # {}
                    THEN AppendNew(l1, MasterEvent(CHOOSE s \in turn'.committed : TRUE))
                    ELSE l1]

\* ------------------------------------------------------- master_skills_bulk
\* mark_skill_and_prerequisites_mastered(cursor, user_id, k, already_processed):
\* the already_processed set after the call. Every skill it adds to the set
\* it also INSERTs into User_Skills.
RECURSIVE MarkSkillAndPrerequisitesMastered(_, _, _), MarkEach(_, _, _)

\* No prerequisite looked up: the skill alone is marked.
PrereqsToMarkNone(k, ord) == {}

\* prereqs = get_all_prerequisites_recursive(cursor, skill_id)
PrereqsToMark(k, ord) == GetAllPrerequisitesRecursive(k, ord)

MarkSkillAndPrerequisitesMastered(k, processed, ord) ==
  IF k \in processed THEN processed
  ELSE MarkEach(Sorted(PrereqsToMark(k, ord), ord), processed \cup {k}, ord)

\* for prereq_id in prereqs: if prereq_id not in already_processed: recurse
MarkEach(todo, processed, ord) ==
  IF todo = << >> THEN processed
  ELSE MarkEach(Tail(todo),
                IF Head(todo) \in processed THEN processed
                ELSE MarkSkillAndPrerequisitesMastered(Head(todo), processed, ord),
                ord)

\* for skill_id in request.skill_ids: mark, sharing processed_skills
RECURSIVE MarkAll(_, _, _)
MarkAll(ids, processed, ord) ==
  IF ids = << >> THEN processed
  ELSE MarkAll(Tail(ids), MarkSkillAndPrerequisitesMastered(Head(ids), processed, ord), ord)

\* The identifiers a request may carry: those of the Skills rows, those the
\* Prerequisites rows mention, and the first default goal.
RequestIds ==
  skillRows \cup {e[1] : e \in prereqs} \cup {e[2] : e \in prereqs} \cup {DefaultGoal({}, "asc")}

\* The longest skill_ids list of a bulk request.
MaxBulk == 1

BulkLists ==
  UNION {Orders(S) : S \in {T \in SUBSET RequestIds :
                              Cardinality(T) >= 1 /\ Cardinality(T) <= MaxBulk}}

\* Where a database statement of a bulk request may raise: nowhere, while
\* the skills are being marked (before the commit), or in the COUNT query
\* that follows the commit.
BulkFaults == {"none", "marking", "count"}

\* One request to /users/{u}/master_skills_bulk. A statement that raises
\* before the commit makes the handler roll back; one that raises after it
\* finds the rows committed, and the handler reports failure all the same.
MasterSkillsBulk(u, ids, ord) ==
  LET found == u \in users
      done == MarkAll(ids, {}, ord)
  IN \E fault \in BulkFaults :
       LET good == found /\ fault # "marking" /\ InsertAccepted(mastery[u], done)
           ok == good /\ fault # "count"
       IN /\ mastery' = [mastery EXCEPT ![u] = CommittedMastery(@, done, good)]
          /\ turn' = [op |-> "bulk", user |-> u, before |-> session[u], msg |-> "none",
                      asked |-> IF fault = "marking" THEN "db_error"
                                ELSE IF found /\ fault = "count" THEN "count_error"
                                ELSE "none",
                      reply |-> IF ok THEN "success" ELSE "failure",
                      raised |-> FALSE, committed |-> IF good THEN done ELSE {},
                      taught |-> None, ok |-> ok, goal |-> None, calls |-> 0]
          /\ UNCHANGED <<dataVars, walkVars, planVars, suggested, users, session>>

\* ------------------------------------------------------------------ set_goal
\* One request to /set_goal.
SetGoal(u, g) ==
  LET exists == g \in skillRows IN
    /\ session' = IF exists /\ session[u].kind # "none"
                    THEN [session EXCEPT ![u].goal = g] ELSE session
    /\ turn' = [op |-> "set_goal", user |-> u, before |-> session[u], msg |-> "none",
                asked |-> "none", reply |-> IF exists THEN "success" ELSE "failure",
                raised |-> FALSE, committed |-> {}, taught |-> None, ok |-> exists,
                goal |-> g, calls |-> 0]
    /\ UNCHANGED <<dataVars, walkVars, planVars, suggested, users, mastery>>

\* ---------------------------------------------------------- available_skills
\* One request to /available_skills/{u}: the suggestions for the learner's
\* mastered skills, or an empty list for a username without a Users row.
GetAvailableSkills(u, ord) ==
  LET found == u \in users IN
    /\ suggested' = IF found THEN GetSkillSuggestions(mastery[u], ord) ELSE << >>
    /\ turn' = [op |-> "available", user |-> u, before |-> session[u], msg |-> "none",
                asked |-> "none", reply |-> IF found THEN "skills" ELSE "not_found",
                raised |-> FALSE, committed |-> {}, taught |-> None, ok |-> found,
                goal |-> None, calls |-> 0]
    /\ UNCHANGED <<dataVars, walkVars, planVars, users, mastery, session>>

\* ------------------------------------------------------------ reachability
\* The skills one edge of E away from a member of S.
StepIn(E, S) == {e[2] : e \in {d \in E : d[1] \in S}}

RECURSIVE GrowIn(_, _)
GrowIn(E, S) == IF StepIn(E, S) \subseteq S THEN S ELSE GrowIn(E, S \cup StepIn(E, S))

\* The skills reachable from s by one or more edges of E.
ReachableIn(E, s) == GrowIn(E, StepIn(E, {s}))

AcyclicIn(E) == \A e \in E : e[1] \notin ReachableIn(E, e[1])

\* The same on the Prerequisites table.
Reachable(s) == ReachableIn(prereqs, s)
OnCycle(s) == s \in Reachable(s)
Acyclic == AcyclicIn(prereqs)

\* ----------------------------------------------------------- specifications
\* The curriculum the service runs on: skills 1..MaxSkill+1 and the first
\* default goal, each a prerequisite of the next.
LadderRows == (1..(MaxSkill + 1)) \cup {DefaultGoal({}, "asc")}
LadderEdges ==
  {<<k + 1, k>> : k \in 1..MaxSkill} \cup {<<DefaultGoal({}, "asc"), MaxSkill + 1>>}

\* The learners of a specification: those in active may have a Users row
\* already, the others never send a request. User_Skills starts empty: its
\* rows are written by chat_handler and master_skills_bulk alone.
InitLearners(active) ==
  /\ users \in SUBSET active
  /\ mastery = [u \in Usernames |-> {}]
  /\ session = [u \in Usernames |-> NoSession]
  /\ turn = NoTurn
  /\ log = [u \in Usernames |-> << >>]

Init ==
  /\ skillRows = LadderRows
  /\ prereqs = LadderEdges
  /\ subjectOf = [s \in skillRows |-> 1]
  /\ WalkIdle
  /\ PlanIdle
  /\ suggested = << >>
  /\ InitLearners({"alice"})

Next ==
  \/ ChatTurn("alice") /\ UNCHANGED log
  \/ \E ids \in BulkLists : \E ord \in RowOrdersNow :
       MasterSkillsBulk("alice", ids, ord) /\ UNCHANGED log
  \/ \E g \in RequestIds : SetGoal("alice", g) /\ UNCHANGED log

Spec == Init /\ [][Next]_vars

\* A learner who only chats, on any small table of prerequisites without
\* a cycle.
InitTeach ==
  /\ skillRows = SkillIds
  /\ prereqs \in {E \in EdgeSets : AcyclicIn(E)}
  /\ subjectOf = [s \in skillRows |-> 1]
  /\ WalkIdle
  /\ PlanIdle
  /\ suggested = << >>
  /\ InitLearners({"alice"})

NextTeach == ChatTurnLogged("alice")

SpecTeach == InitTeach /\ [][NextTeach]_vars

\* Two learners on the curriculum of Spec, their requests interleaved in
\* every way; each request is counted in the log of its learner and at
\* most MaxRequests are served.
MaxRequests == 3

RequestEvent == [kind |-> "request", skill |-> None, known |-> FALSE]

Served == Len(log["alice"]) + Len(log["bob"])

InitTwo ==
  /\ skillRows = LadderRows
  /\ prereqs = LadderEdges
  /\ subjectOf = [s \in skillRows |-> 1]
  /\ WalkIdle
  /\ PlanIdle
  /\ suggested = << >>
  /\ InitLearners(Usernames)

RequestOf(u) ==
  \/ ChatTurn(u)
  \/ \E ids \in BulkLists : \E ord \in RowOrdersNow :
       MasterSkillsBulk(u, ids, ord)
  \/ \E g \in RequestIds : SetGoal(u, g)

NextTwo ==
  /\ Served < MaxRequests
  /\ \E u \in Usernames :
       RequestOf(u) /\ log' = [log EXCEPT ![u] = Append(@, RequestEvent)]

SpecTwo == InitTwo /\ [][NextTwo]_vars

\* The learner of Spec with the trail of the stored session kept: the
\* phases whose prompt went to the oracle since the entry was created, each
\* once, in order.
PhaseEvent(phase, s) == [kind |-> phase, skill |-> s, known |-> FALSE]

ChatTurnTrailed(u) ==
  /\ ChatTurn(u)
  /\ log' = [log EXCEPT ![u] =
               LET fresh == turn'.before.kind # "teaching" \/ turn'.msg = "resume"
                   base == IF fresh THEN << >> ELSE @
                   phase == IF fresh THEN "Crawl" ELSE turn'.before.phase
               IN IF session'[u].kind # "teaching" THEN << >>
                  ELSE IF turn'.calls = 1
                    THEN AppendNew(base, PhaseEvent(phase, session'[u].skill))
                  ELSE base]

NextPhases ==
  \/ ChatTurnTrailed("alice")
  \/ \E ids \in BulkLists : \E ord \in RowOrdersNow :
       MasterSkillsBulk("alice", ids, ord) /\ UNCHANGED log
  \/ \E g \in RequestIds : SetGoal("alice", g) /\ UNCHANGED log

SpecPhases == Init /\ [][NextPhases]_vars

\* A learner who chats and is placed, on any small table of prerequisites
\* without a cycle.
NextClosed ==
  \/ ChatTurn("alice") /\ UNCHANGED log
  \/ \E ids \in BulkLists : \E ord \in RowOrdersNow :
       MasterSkillsBulk("alice", ids, ord) /\ UNCHANGED log

SpecClosed == InitTeach /\ [][NextClosed]_vars

\* Placement alone, on any small table of prerequisites, cycles included.
InitBulk ==
  /\ skillRows = SkillIds
  /\ prereqs \in EdgeSets
  /\ subjectOf = [s \in skillRows |-> 1]
  /\ WalkIdle
  /\ PlanIdle
  /\ suggested = << >>
  /\ InitLearners({"alice"})

NextBulk ==
  \E ids \in BulkLists : \E ord \in RowOrdersNow :
    MasterSkillsBulk("alice", ids, ord) /\ UNCHANGED log

SpecBulk == InitBulk /\ [][NextBulk]_vars

\* The suggestions of a learner whose skills are marked in bulk. The Skills
\* table has MaxSkill rows or one row more than the suggestion limit; the
\* first MaxSkill skills have prerequisites, out of SuggestEdges, and are of
\* either subject, the others are of the first subject.
SuggestEdges == {<<2, 1>>, <<3, 2>>, <<1, 3>>, <<3, 1>>}

InitSuggest ==
  /\ skillRows \in {1..MaxSkill, 1..(SuggestionLimit + 1)}
  /\ prereqs \in SUBSET SuggestEdges
  /\ subjectOf \in {[s \in skillRows |-> IF s \in T THEN 2 ELSE 1] : T \in SUBSET SkillIds}
  /\ WalkIdle
  /\ PlanIdle
  /\ suggested = << >>
  /\ InitLearners({"alice"})

NextSuggest ==
  \/ \E ids \in {l \in BulkLists : \A i \in 1..Len(l) : l[i] \in SkillIds} :
       \E ord \in RowOrdersNow : MasterSkillsBulk("alice", ids, ord) /\ UNCHANGED log
  \/ \E ord \in RowOrdersNow : GetAvailableSkills("alice", ord) /\ UNCHANGED log

SpecSuggest == InitSuggest /\ [][NextSuggest]_vars

\* ------------------------------------------------------------ claims C1, C2
\* C1 as stated: on every edge set, cyclic ones included, a completed
\* top-level walk from s returns a set that does not contain s, and equals
\* what every earlier walk from s returned and what the call returns under
\* every row order.
C1_AsStated ==
  wPc = "done" =>
    /\ wStart \notin wResult
    /\ \A r \in wSeen : r = wResult
    /\ \A ord \in RowOrders : GetAllPrerequisites(wStart, ord) = wResult

\* C1 as amended: the closure of s does not contain s whenever s lies on no
\* cycle of the edge set (so on every acyclic edge set), and on every edge
\* set, cyclic or not, recomputing it yields the same set whatever the order
\* in which the rows are visited.
C1_ClosureStable ==
  wPc = "done" =>
    /\ (~OnCycle(wStart) => wStart \notin wResult)
    /\ \A r \in wSeen : r = wResult
    /\ \A ord \in RowOrders : GetAllPrerequisites(wStart, ord) = wResult
    /\ \A ord \in RowOrders : GetAllPrerequisitesRecursive(wStart, ord) = wResult

\* A second walk from the same skill has completed on an edge set where the
\* skill has two prerequisites (so the rows can come in two orders).
C1_Witness ==
  /\ wPc = "done"
  /\ wSeen # {}
  /\ Cardinality(DirectPrereqs(wStart)) >= 2
  /\ ~OnCycle(wStart)

\* C2: the walk terminates on every edge set, cycles and self-loops
\* included: it makes at most one call per edge besides the first, every
\* started walk completes, and what it returns is exactly the set of skills
\* reachable from the start skill by one or more prerequisite edges.
C2_WalkTerminatesExact ==
  /\ [](wCalls <= 1 + Cardinality(prereqs))
  /\ [](wPc = "done" => wResult = Reachable(wStart))
  /\ ((wPc = "running") ~> (wPc = "done"))

\* A walk has completed from a skill with a self-loop that also lies on a
\* longer cycle.
C2_Witness ==
  /\ wPc = "done"
  /\ <<wStart, wStart>> \in prereqs
  /\ \E t \in SkillIds \ {wStart} : t \in Reachable(wStart) /\ wStart \in Reachable(t)
  /\ wStart \in wResult

\* ------------------------------------------------------------ claims C3, C4
\* The members of closure(goal) \cup {goal} outside the mastery set M, and
\* those among them whose own closure lies inside M.
Candidates(M, g) == (Reachable(g) \cup {g}) \ M
Ready(M, g) == {c \in Candidates(M, g) : Reachable(c) \subseteq M}

\* Scenario A of the specification: edges 3->2->1, nothing mastered, goal 3.
ScenarioA == prereqs = {<<3, 2>>, <<2, 1>>} /\ pMastered = {} /\ pGoal = 3

\* C3 as stated: for every mastery set and goal, on every edge set,
\* find_next_skill returns None exactly when the goal is mastered, and
\* otherwise an unmastered member of closure(goal) \cup {goal} whose own
\* closure is inside the mastery set; in scenario A it returns 1.
C3_AsStated ==
  pPc = "done" =>
    /\ (pResult = None <=> pGoal \in pMastered)
    /\ (pGoal \notin pMastered => pResult \in Ready(pMastered, pGoal))
    /\ (ScenarioA => pResult = 1)

\* C3 as amended: find_next_skill returns None exactly when the goal is
\* mastered, and otherwise an unmastered member of closure(goal) \cup {goal};
\* the closure of that member is inside the mastery set whenever some
\* unmastered member has its closure inside the mastery set, which is so on
\* every acyclic edge set; when cycles leave no such member it returns the
\* lowest-identifier unmastered prerequisite. In scenario A it returns 1.
C3_NextSkillReady ==
  pPc = "done" =>
    /\ (pResult = None <=> pGoal \in pMastered)
    /\ (pGoal \notin pMastered =>
          /\ pResult \in Candidates(pMastered, pGoal)
          /\ (Acyclic => Ready(pMastered, pGoal) # {})
          /\ (Ready(pMastered, pGoal) # {} => pResult \in Ready(pMastered, pGoal))
          /\ (Ready(pMastered, pGoal) = {} =>
                pResult = Min(Reachable(pGoal) \ pMastered)))
    /\ (ScenarioA => pResult = 1)

\* find_next_skill has returned in scenario A.
C3_Witness == pPc = "done" /\ ScenarioA /\ pResult = 1

\* C4: when several unmastered members of closure(goal) \cup {goal} have
\* their whole closure inside the mastery set, find_next_skill returns the
\* one with the lowest identifier, and calling it again with the same
\* mastery set, goal and edge set returns the same skill.
C4_LowestIdFirst ==
  (pPc = "done" /\ pGoal \notin pMastered /\ Ready(pMastered, pGoal) # {}) =>
    /\ pResult = Min(Ready(pMastered, pGoal))
    /\ \A r \in pSeen : r = pResult

\* ------------------------------------------------------------------ claim C5
\* Where in a teaching record the skill s is first taught and where it is
\* committed (0: nowhere).
TaughtAt(l, s) ==
  IF \E i \in 1..Len(l) : l[i].kind = "teach" /\ l[i].skill = s
    THEN Min({i \in 1..Len(l) : l[i].kind = "teach" /\ l[i].skill = s}) ELSE 0
MasteredAt(l, s) ==
  IF \E i \in 1..Len(l) : l[i] = MasterEvent(s)
    THEN Min({i \in 1..Len(l) : l[i] = MasterEvent(s)}) ELSE 0

\* C5: on an acyclic prerequisite table, over any sequence of chat turns,
\* no skill is taught that was already mastered when its turn began, and
\* for every edge (a depends on b) with both a and b taught, b is committed
\* as mastered before the first turn in which a is the current skill.
C5_TaughtInTopologicalOrder ==
  Acyclic =>
    \A u \in Usernames :
      /\ \A i \in 1..Len(log[u]) : log[u][i].kind = "teach" => ~log[u][i].known
      /\ \A e \in prereqs :
           (TaughtAt(log[u], e[1]) # 0 /\ TaughtAt(log[u], e[2]) # 0) =>
             /\ MasteredAt(log[u], e[2]) # 0
             /\ MasteredAt(log[u], e[2]) < TaughtAt(log[u], e[1])

\* A skill and one of its prerequisites have both been taught and committed.
C5_Witness ==
  \E e \in prereqs :
    /\ TaughtAt(log["alice"], e[1]) # 0 /\ TaughtAt(log["alice"], e[2]) # 0
    /\ MasteredAt(log["alice"], e[1]) # 0

\* ------------------------------------------------------------ claims C6-C10
\* The entry of the learner of the last request, after it.
TurnSession == IF turn.op = "none" THEN NoSession ELSE session[turn.user]

\* The last request was a chat turn that found a teaching session in the
\* given phase and kept it (the message was not a resume phrase).
TurnIn(phase) ==
  /\ turn.op = "chat"
  /\ turn.msg # "resume"
  /\ turn.before.kind = "teaching"
  /\ turn.before.phase = phase

EvaluatePhases == {"Walk_Evaluate", "Run_Evaluate"}
Unparsable == {"no_json", "bad_json"}

\* C6 as stated: after an incorrect judgment in Run_Evaluate the phase is
\* Crawl for the same skill, nothing is committed and the phase is not
\* Summary.
C6_AsStated ==
  (TurnIn("Run_Evaluate") /\ turn.asked = "incorrect") =>
    /\ TurnSession.kind = "teaching"
    /\ TurnSession.phase = "Crawl"
    /\ TurnSession.skill = turn.before.skill
    /\ turn.committed = {}

\* C6 as amended: after an incorrect judgment in Run_Evaluate the phase is
\* Walk_Ask for the same skill and goal; the phase is not Summary, nothing
\* is committed and the current skill does not change.
C6_FailedRunBackToWalk ==
  (TurnIn("Run_Evaluate") /\ turn.asked = "incorrect") =>
    /\ TurnSession.kind = "teaching"
    /\ TurnSession.phase = "Walk_Ask"
    /\ TurnSession.phase # "Summary"
    /\ TurnSession.skill = turn.before.skill
    /\ TurnSession.goal = turn.before.goal
    /\ turn.committed = {}

\* An incorrect judgment has been given in Run_Evaluate.
C6_Witness == TurnIn("Run_Evaluate") /\ turn.asked = "incorrect"

\* C7: from Walk_Evaluate the phase becomes Run_Ask only on a correct
\* judgment; on an incorrect one it becomes Crawl and not Run_Ask.
C7_WalkAdvancesOnlyIfCorrect ==
  TurnIn("Walk_Evaluate") =>
    /\ (TurnSession.kind = "teaching" /\ TurnSession.phase = "Run_Ask")
         => turn.asked = "correct"
    /\ turn.asked = "incorrect"
         => (TurnSession.kind = "teaching" /\ TurnSession.phase = "Crawl")

\* C8: in an Evaluate phase, output that cannot be parsed leaves the session
\* in the same evaluation step for the same skill, nothing committed.
C8_UnparsableStaysInStep ==
  \A phase \in EvaluatePhases :
    (TurnIn(phase) /\ turn.asked \in Unparsable) =>
      /\ TurnSession.kind = "teaching"
      /\ TurnSession.phase = phase
      /\ TurnSession.skill = turn.before.skill
      /\ turn.committed = {}

\* C9: output that cannot be parsed is answered with the generic
\* malformed-evaluation reply, never with the text of the parse error, and
\* the session is kept.
C9_UnparsableNeverSurfaced ==
  \A phase \in EvaluatePhases :
    (TurnIn(phase) /\ turn.asked \in Unparsable) =>
      /\ turn.reply = "malformed"
      /\ TurnSession.kind # "none"

\* C10 as stated: a turn whose oracle call fails leaves the session as it
\* was before the turn: same phase, skill, goal and last question.
C10_AsStated ==
  (turn.op = "chat" /\ turn.msg # "resume" /\ turn.before.kind = "teaching"
     /\ turn.asked = "fail") =>
    TurnSession = turn.before

\* C10 as amended: a turn whose oracle call fails, in whatever phase, ends
\* with the learner's entry removed (no phase, skill, goal or last question
\* is kept) and nothing committed, so the next turn starts at goal intake.
C10_FailureDiscardsSession ==
  (turn.op = "chat" /\ turn.asked = "fail") =>
    /\ TurnSession = NoSession
    /\ turn.committed = {}
    /\ turn.reply = "api_error_text"
    /\ ~turn.raised

\* The oracle call of a teaching session past Crawl has failed.
C10_Witness ==
  /\ turn.op = "chat" /\ turn.msg # "resume" /\ turn.asked = "fail"
  /\ turn.before.kind = "teaching" /\ turn.before.phase = "Run_Ask"

\* ----------------------------------------------------------------- claim C11
\* The last request was a chat turn that began at goal intake: the learner
\* had no entry, or a resume phrase removed it.
IntakeTurnTaken ==
  turn.op = "chat" /\ (turn.before.kind = "none" \/ turn.msg = "resume")

\* C11: when goal intake resolves to an identifier with no Skills row (here
\* the default goal of a message that names no subject), the turn ends
\* with a reply, the learner has no session and the handler does not raise.
C11_UnknownGoalRecovered ==
  (IntakeTurnTaken /\ turn.msg \in {"other", "resume"}
     /\ DefaultGoal(mastery[turn.user], "asc") \notin skillRows) =>
    /\ ~turn.raised
    /\ turn.reply # "none"
    /\ TurnSession = NoSession

\* ----------------------------------------------------------- claims C12, C13
\* C12: over chat turns, set_goal calls and master_skills_bulk calls, those
\* that fail and roll back included, no skill ever leaves a learner's
\* committed mastery set.
C12_MasteryGrows == [][\A u \in Usernames : mastery[u] \subseteq mastery'[u]]_vars

\* A bulk call has failed and rolled back for a learner who has mastered
\* something.
C12_Witness ==
  turn.op = "bulk" /\ turn.asked = "db_error" /\ mastery[turn.user] # {}

\* C13: committing rows the learner already has leaves the mastery set as
\* it was and does not fail, be it a correct Run_Evaluate judgment for a
\* mastered skill or a bulk call (of a known learner, the database up) that
\* inserted no row the learner did not have.
C13_RecommitIdempotent ==
  [][\A u \in Usernames :
       /\ (/\ turn'.op = "bulk" /\ turn'.user = u /\ u \in users
           /\ turn'.asked = "none"
           /\ turn'.committed \subseteq mastery[u])
            => (mastery'[u] = mastery[u] /\ turn'.ok /\ turn'.reply = "success")
       /\ (/\ turn'.op = "chat" /\ turn'.user = u /\ turn'.msg # "resume"
           /\ session[u].kind = "teaching" /\ session[u].phase = "Run_Evaluate"
           /\ turn'.asked = "correct"
           /\ session[u].skill \in mastery[u])
            => (/\ mastery'[u] = mastery[u]
                /\ ~turn'.raised
                /\ turn'.reply = "feedback_mastered"
                /\ turn'.committed = {session[u].skill})]_vars

\* A skill committed by a chat turn (the session is in Summary for it) has
\* been committed again by a bulk call.
C13_Witness ==
  /\ turn.op = "bulk" /\ turn.ok
  /\ session[turn.user].kind = "teaching" /\ session[turn.user].phase = "Summary"
  /\ session[turn.user].skill \in turn.committed

\* ----------------------------------------------------------------- claim C14
\* C14: after a successful bulk call, every skill k the call marked, the
\* requested ones among them, is in the learner's mastery set together
\* with every member of closure(k), on every table of prerequisites,
\* cyclic ones included.
C14_ClosureMarked ==
  (turn.op = "bulk" /\ turn.ok) =>
    /\ turn.committed # {}
    /\ \A k \in turn.committed : (Reachable(k) \cup {k}) \subseteq mastery[turn.user]

\* A bulk call has succeeded for a skill that lies on a cycle and has a
\* prerequisite off it.
C14_Witness ==
  /\ turn.op = "bulk" /\ turn.ok
  /\ \E k \in turn.committed : OnCycle(k) /\ Cardinality(Reachable(k)) > 1

\* ----------------------------------------------------------------- claim C15
\* C15: the skill a Crawl, Walk or Run turn is about is not in the
\* learner's mastery set when the turn begins (the set after the turn, less
\* what the turn itself committed), so a skill that a bulk call marked
\* between two chat turns is not taught on.
C15_TaughtSkillUnmastered ==
  (turn.op = "chat" /\ turn.taught # None) =>
    turn.taught \notin (mastery[turn.user] \ turn.committed)

\* ----------------------------------------------------------------- claim C16
\* C16: a chat turn calls the oracle at most once and commits mastery of
\* at most one skill, whatever the phase and whatever the turn chains
\* (a session created and taught in the same turn, Summary).
C16_OneCallOneCommit ==
  turn.op = "chat" => (turn.calls <= 1 /\ Cardinality(turn.committed) <= 1)

\* A turn has called the oracle once and committed the current skill of a
\* session whose goal is another skill.
C16_Witness ==
  /\ turn.op = "chat" /\ turn.calls = 1 /\ Cardinality(turn.committed) = 1
  /\ turn.before.goal # turn.before.skill

\* ----------------------------------------------------------------- claim C17
\* C17: from every session state (none, awaiting the checklist, any phase)
\* and for every message, a chat turn ends with one reply; the handler
\* never fails without one.
C17_AlwaysOneReply ==
  turn.op = "chat" => (~turn.raised /\ turn.reply # "none")

\* ----------------------------------------------------------------- claim C18
\* C18: a chat turn, set_goal call or bulk call of one learner leaves the
\* session entry and the mastery set of every other learner as they were,
\* in every interleaving of the learners' requests.
C18_LearnersIndependent ==
  [][\A u \in Usernames :
       u # turn'.user => (session'[u] = session[u] /\ mastery'[u] = mastery[u])]_vars

\* A request of alice has been served while bob had a teaching session and
\* a mastered skill, and alice has a session of her own.
C18_Witness ==
  /\ turn.user = "alice"
  /\ session["bob"].kind = "teaching" /\ mastery["bob"] # {}
  /\ session["alice"].kind = "teaching"
  /\ session["alice"] # session["bob"]

\* ----------------------------------------------------------------- claim C19
\* C19: after a Summary turn that leaves the session's goal unmastered, the
\* learner's next chat turn, whatever its message, teaches the Crawl step
\* of find_next_skill(mastery, that goal) in a session with that goal
\* (the oracle failing in neither turn).
C19_SummaryContinuesToNext ==
  [][(/\ TurnIn("Summary") /\ turn.asked = "text"
      /\ turn.before.goal \notin mastery[turn.user]
      /\ turn'.op = "chat" /\ turn'.user = turn.user /\ turn'.asked # "fail")
       => (/\ turn'.taught # None
           /\ turn'.taught \in NextSkillChoices(mastery[turn.user], turn.before.goal, "asc")
           /\ session'[turn.user].kind = "teaching"
           /\ session'[turn.user].goal = turn.before.goal)]_vars

\* ----------------------------------------------------------------- claim C20
\* The last request was the Summary turn of a session whose goal is now
\* mastered: the skill summarised was the last one the goal needed.
LastSummaryTaken ==
  TurnIn("Summary") /\ turn.before.goal \in mastery[turn.user]

\* C20: after the Summary turn for the last unmastered skill of the goal
\* the learner has no session (no skill, goal or last question), and a
\* goal intake that follows builds a new session from the current mastery
\* set: its skill is unmastered and is what find_next_skill returns for its
\* goal, it has no last question, and the turn teaches its Crawl step.
C20_FreshStartAfterLastSummary ==
  /\ [](LastSummaryTaken => (~turn.raised /\ TurnSession = NoSession))
  /\ [][(/\ LastSummaryTaken
         /\ turn'.op = "chat" /\ turn'.user = turn.user
         /\ session'[turn.user].kind = "teaching")
          => LET s == session'[turn.user] IN
               /\ s.lastq = "none"
               /\ s.phase = PhaseBeforeCall("Crawl")
               /\ turn'.taught = s.skill
               /\ s.skill \notin mastery[turn.user]
               /\ \E ord \in RowOrders :
                    s.skill \in NextSkillChoices(mastery[turn.user], s.goal, ord)]_vars

\* The Summary turn of the last skill of a goal has been served.
C20_Witness == LastSummaryTaken /\ turn.asked = "text" /\ TurnSession = NoSession

\* ----------------------------------------------------------------- claim C21
\* The teaching steps in the order a session takes them.
TeachingSteps == <<"Crawl", "Walk_Ask", "Walk_Evaluate", "Run_Ask", "Run_Evaluate">>

\* The trail l holds every teaching step for skill s, first met in order.
FullTrail(l, s) ==
  /\ Len(l) = Len(TeachingSteps)
  /\ \A i \in 1..Len(TeachingSteps) : l[i] = PhaseEvent(TeachingSteps[i], s)

\* C21: a chat turn commits mastery only of the session's current skill and
\* only in a Run_Evaluate turn whose judgment says correct; the phase
\* becomes Summary only in such a turn; and a session in Summary has gone
\* through Crawl, Walk_Ask, Walk_Evaluate, Run_Ask and Run_Evaluate for its
\* skill, in that order.
C21_SummaryOnlyAfterPassedRun ==
  /\ []((turn.op = "chat" /\ turn.committed # {}) =>
          (/\ TurnIn("Run_Evaluate") /\ turn.asked = "correct"
           /\ turn.committed = {turn.before.skill}))
  /\ [](\A u \in Usernames :
          (session[u].kind = "teaching" /\ session[u].phase = "Summary") =>
            FullTrail(log[u], session[u].skill))
  /\ [][\A u \in Usernames :
          (session'[u].phase = "Summary" /\ session[u].phase # "Summary") =>
            (/\ turn'.op = "chat" /\ turn'.user = u /\ turn'.msg # "resume"
             /\ turn'.asked = "correct" /\ turn'.committed = {session[u].skill}
             /\ session[u].phase = "Run_Evaluate"
             /\ session'[u].skill = session[u].skill)]_vars

\* A session has passed its test and reached Summary.
C21_Witness ==
  /\ turn.op = "chat" /\ turn.committed # {}
  /\ turn.before.lastq = "run_question" /\ TurnSession.phase = "Summary"
  /\ FullTrail(log[turn.user], TurnSession.skill)

\* ----------------------------------------------------------------- claim C22
\* The set M holds every prerequisite of its members.
Closed(M) == \A e \in prereqs : e[1] \in M => e[2] \in M

\* C22: on an acyclic table of prerequisites, a mastery set that starts
\* closed under prerequisites stays closed over every interleaving of chat
\* turns and bulk calls.
C22_MasteryStaysClosed ==
  Acyclic => \A u \in Usernames : Closed(mastery[u])

\* A chat turn has committed a skill that has a prerequisite.
C22_Witness ==
  /\ turn.op = "chat"
  /\ \E e \in prereqs : e[1] \in turn.committed

\* ----------------------------------------------------------------- claim C23
\* The question a stored session in an Evaluate phase must hold.
QuestionOf(phase) == IF phase = "Walk_Evaluate" THEN "walk_question" ELSE "run_question"

\* C23: a stored session in Walk_Evaluate (Run_Evaluate) holds the question
\* the oracle returned in the latest Walk_Ask (Run_Ask) turn of that session,
\* never none and never the question of an earlier step; and a session
\* enters an Evaluate phase only by an Ask turn whose oracle call returned
\* text, for the same skill.
C23_EvaluatedAgainstLatestQuestion ==
  /\ [](\A u \in Usernames :
          (session[u].kind = "teaching" /\ session[u].phase \in EvaluatePhases) =>
            session[u].lastq = QuestionOf(session[u].phase))
  /\ [][\A u \in Usernames :
          (/\ session'[u].kind = "teaching" /\ session'[u].phase \in EvaluatePhases
           /\ session'[u].phase # session[u].phase) =>
            (/\ turn'.op = "chat" /\ turn'.user = u /\ turn'.asked = "text"
             /\ session[u].kind = "teaching"
             /\ PhaseBeforeCall(session[u].phase) = session'[u].phase
             /\ session'[u].skill = session[u].skill)]_vars

\* After a failed test the session has asked a new guided question: it is
\* in Walk_Evaluate, and what it held before the Ask turn was the test
\* question.
C23_Witness ==
  /\ TurnIn("Walk_Ask") /\ turn.before.lastq = "run_question"
  /\ TurnSession.kind = "teaching" /\ TurnSession.phase = "Walk_Evaluate"

\* ----------------------------------------------------------------- claim C24
\* C24: when a learner whose entry awaits the checklist sends a resume
\* phrase (the stored goal not yet mastered, the oracle answering), the
\* turn stores a teaching session whose goal is the stored goal and whose
\* skill is what find_next_skill returns for the mastery set and that goal.
C24_ResumeTowardStoredGoal ==
  [][\A u \in Usernames :
       (/\ session[u].kind = "checklist" /\ session[u].goal \notin mastery[u]
        /\ turn'.op = "chat" /\ turn'.user = u /\ turn'.msg = "resume"
        /\ turn'.asked # "fail")
         => (/\ session'[u].kind = "teaching"
             /\ session'[u].goal = session[u].goal
             /\ \E ord \in RowOrders :
                  session'[u].skill \in NextSkillChoices(mastery[u], session[u].goal, ord))]_vars

\* ------------------------------------------------------------------ claim C25
\* C25: once set_goal has returned success for a learner and a goal, the
\* goal is recorded in the learner's entry, whether or not an entry existed
\* before the call, and the skill the learner's next chat turn starts
\* teaching is the goal or one of its prerequisites.
C25_GoalRecordedAndFollowed ==
  [][\A u \in Usernames :
       (turn.op = "set_goal" /\ turn.user = u /\ turn.ok)
         => /\ session[u].goal = turn.goal
            /\ (turn'.op = "chat" /\ turn'.user = u /\ turn'.taught # None)
                 => \E ord \in RowOrders :
                      turn'.taught \in {turn.goal} \cup GetAllPrerequisites(turn.goal, ord)]_vars

\* ------------------------------------------------------------------ claim C26
\* C26: a bulk call in which a statement raises while the skills are being
\* marked leaves the learner's mastery set as it was before the call and
\* reports failure; a bulk call that reports success has committed every
\* requested skill together with everything reachable from it.
C26_BulkAllOrNothing ==
  [][\A u \in Usernames : \A ids \in BulkLists : \A ord \in RowOrders :
       MasterSkillsBulk(u, ids, ord) =>
         /\ turn'.asked = "db_error"
              => (mastery'[u] = mastery[u] /\ ~turn'.ok /\ turn'.reply = "failure")
         /\ turn'.ok
              => \A i \in 1..Len(ids) : ({ids[i]} \cup Reachable(ids[i])) \subseteq mastery'[u]]_vars

\* A bulk call has failed while marking, for a learner who had mastered
\* some skills and not yet all of them.
C26_Witness ==
  /\ turn.op = "bulk" /\ turn.asked = "db_error" /\ ~turn.ok
  /\ mastery[turn.user] # {} /\ mastery[turn.user] # skillRows

\* ------------------------------------------------------------------ claim C27
\* C27: the list get_skill_suggestions returns for a learner has at most 10
\* entries; every entry is a skill outside the learner's mastery set with
\* everything reachable from it inside the set; the entries are in
\* increasing order of (subject, skill_id); and the list is empty only if no
\* skill outside the mastery set has everything reachable from it inside.
C27_SuggestionsReadySortedCapped ==
  (turn.op = "available" /\ turn.ok) =>
    LET mastered == mastery[turn.user] IN
      /\ Len(suggested) <= 10
      /\ \A i \in 1..Len(suggested) :
           /\ suggested[i] \in skillRows \ mastered
           /\ Reachable(suggested[i]) \subseteq mastered
      /\ \A i \in 1..Len(suggested) : \A j \in (i + 1)..Len(suggested) :
           \/ subjectOf[suggested[i]] < subjectOf[suggested[j]]
           \/ /\ subjectOf[suggested[i]] = subjectOf[suggested[j]]
              /\ suggested[i] < suggested[j]
      /\ suggested = << >> =>
           ~ \E k \in skillRows \ mastered : Reachable(k) \subseteq mastered

\* The list came back full, with skills of both subjects on it, while a
\* skill that was ready to learn was cut off.
C27_Witness ==
  /\ turn.op = "available" /\ turn.ok
  /\ Len(suggested) = 10
  /\ \E i, j \in 1..Len(suggested) : subjectOf[suggested[i]] # subjectOf[suggested[j]]
  /\ \E k \in skillRows \ mastery[turn.user] :
       /\ Reachable(k) \subseteq mastery[turn.user]
       /\ \A i \in 1..Len(suggested) : suggested[i] # k

==========================================================================
